---- MODULE Spec2Model ----
(***************************************************************************)
(* Query orchestration engine of rust-engine: IntelligentSearchEngine      *)
(* (intelligent_search.rs) on top of AgentOrchestrator                     *)
(* (agent_orchestrator.rs).  Search calls run concurrently; every call     *)
(* plans a deployment, spawns detached scout tasks that search the         *)
(* Storage behind one tokio Mutex, builds an AnalysisResult and caches it. *)
(* Strings are TLA+ strings; characters are strings of length one.         *)
(***************************************************************************)
EXTENDS Integers, Sequences, FiniteSets, TLC

(***************************************************************************)
(* Bounds of the model.                                                    *)
(***************************************************************************)
\* number of IntelligentSearchEngine::search invocations, all of which may overlap
MaxCalls == 2
\* largest document count the Storage reports to the planner
MaxDocs == 600
\* number of scouts whose findings are handed to the aggregation steps
MaxWorkers == 2
\* largest number of findings of one scout handed to the aggregation steps
MaxFindings == 2

(***************************************************************************)
(* Option<T> and Result<T, E>.                                             *)
(***************************************************************************)
None == [some |-> FALSE]
Some(v) == [some |-> TRUE, val |-> v]
Ok(v) == [ok |-> TRUE, val |-> v]
Err(e) == [ok |-> FALSE, err |-> e]

\* Option::unwrap_or / Result::unwrap_or
unwrap_or(r, d) ==
    IF "ok" \in DOMAIN r
    THEN (IF r.ok THEN r.val ELSE d)
    ELSE (IF r.some THEN r.val ELSE d)

(***************************************************************************)
(* str operations used by the engine (ASCII).                              *)
(***************************************************************************)
UpperToLower ==
    [c \in {"A","B","C","D","E","F","G","H","I","J","K","L","M",
            "N","O","P","Q","R","S","T","U","V","W","X","Y","Z"} |->
       CASE c = "A" -> "a" [] c = "B" -> "b" [] c = "C" -> "c" [] c = "D" -> "d"
         [] c = "E" -> "e" [] c = "F" -> "f" [] c = "G" -> "g" [] c = "H" -> "h"
         [] c = "I" -> "i" [] c = "J" -> "j" [] c = "K" -> "k" [] c = "L" -> "l"
         [] c = "M" -> "m" [] c = "N" -> "n" [] c = "O" -> "o" [] c = "P" -> "p"
         [] c = "Q" -> "q" [] c = "R" -> "r" [] c = "S" -> "s" [] c = "T" -> "t"
         [] c = "U" -> "u" [] c = "V" -> "v" [] c = "W" -> "w" [] c = "X" -> "x"
         [] c = "Y" -> "y" [] c = "Z" -> "z"]

\* str::to_lowercase
RECURSIVE to_lowercase(_)
to_lowercase(s) ==
    IF Len(s) = 0 THEN ""
    ELSE LET c == SubSeq(s, 1, 1)
         IN (IF c \in DOMAIN UpperToLower THEN UpperToLower[c] ELSE c)
            \o to_lowercase(SubSeq(s, 2, Len(s)))

\* str::contains(&str): substring test
contains(s, pat) ==
    \E i \in 1..(Len(s) - Len(pat) + 1) : SubSeq(s, i, i + Len(pat) - 1) = pat

\* str::split_whitespace: the maximal runs of non-blank characters, in order
RECURSIVE SplitFrom(_, _, _)
SplitFrom(s, i, word) ==
    IF i > Len(s)
    THEN (IF Len(word) = 0 THEN <<>> ELSE <<word>>)
    ELSE IF SubSeq(s, i, i) = " "
         THEN (IF Len(word) = 0 THEN <<>> ELSE <<word>>) \o SplitFrom(s, i + 1, "")
         ELSE SplitFrom(s, i + 1, word \o SubSeq(s, i, i))

split_whitespace(s) == SplitFrom(s, 1, "")

\* Iterator::filter(..).map(to_lowercase).collect over the words of a query
RECURSIVE LongWordsLower(_, _)
LongWordsLower(words, minLen) ==
    IF words = <<>> THEN <<>>
    ELSE (IF Len(Head(words)) > minLen THEN <<to_lowercase(Head(words))>> ELSE <<>>)
         \o LongWordsLower(Tail(words), minLen)

Min(a, b) == IF a < b THEN a ELSE b
Max(a, b) == IF a > b THEN a ELSE b

(***************************************************************************)
(* Enumerations.                                                           *)
(***************************************************************************)
QueryScope == {"Narrow", "Focused", "Broad", "Exhaustive"}
QueryPriority == {"Urgent", "High", "Normal", "Background"}
QueryIntent ==
    {"FactFinding", "RelationshipMapping", "TimelineAnalysis", "RiskAssessment",
     "EntityExtraction", "DocumentClassification", "AnomalyDetection", "ComplianceAudit"}
ScoutType ==
    {"KeywordHunter", "PatternDetector", "RelationshipMapper", "TimelineBuilder",
     "EntityExtractor", "AnomalySpotter", "ComplianceChecker", "SentimentAnalyzer"}
ScoutStatus ==
    {"Deployed", "Searching", "FoundLead", "DeadEnd", "ReportingBack", "Completed", "Failed"}

(***************************************************************************)
(* Query classifier (IntelligentSearchEngine).                             *)
(***************************************************************************)
infer_query_intent(query, hint) ==
    IF hint.some
    THEN LET h == to_lowercase(hint.val)
         IN Ok(CASE h \in {"fact", "facts"} -> "FactFinding"
                 [] h \in {"relationship", "connections"} -> "RelationshipMapping"
                 [] h \in {"timeline", "chronology"} -> "TimelineAnalysis"
                 [] h \in {"risk", "risks"} -> "RiskAssessment"
                 [] h \in {"entities", "people", "companies"} -> "EntityExtraction"
                 [] h \in {"classify", "categorize"} -> "DocumentClassification"
                 [] h \in {"anomaly", "unusual"} -> "AnomalyDetection"
                 [] h \in {"compliance", "regulatory"} -> "ComplianceAudit"
                 [] OTHER -> "FactFinding")
    ELSE LET q == to_lowercase(query)
         IN Ok(IF contains(q, "who") \/ contains(q, "person") \/ contains(q, "people")
               THEN "EntityExtraction"
               ELSE IF contains(q, "when") \/ contains(q, "timeline") \/ contains(q, "chronological")
               THEN "TimelineAnalysis"
               ELSE IF contains(q, "relationship") \/ contains(q, "connected") \/ contains(q, "link")
               THEN "RelationshipMapping"
               ELSE IF contains(q, "risk") \/ contains(q, "danger") \/ contains(q, "threat")
               THEN "RiskAssessment"
               ELSE IF contains(q, "compliance") \/ contains(q, "regulation") \/ contains(q, "legal")
               THEN "ComplianceAudit"
               ELSE IF contains(q, "unusual") \/ contains(q, "anomaly") \/ contains(q, "strange")
               THEN "AnomalyDetection"
               ELSE IF contains(q, "type") \/ contains(q, "category") \/ contains(q, "classify")
               THEN "DocumentClassification"
               ELSE "FactFinding")

\* variant: a hint outside the vocabulary is rejected
parse_query_scope_strict(scope_hint) ==
    IF scope_hint = None \/ scope_hint.val \in {"narrow", "focused", "broad", "exhaustive"}
    THEN Ok(CASE scope_hint = Some("narrow") -> "Narrow"
              [] scope_hint = Some("broad") -> "Broad"
              [] scope_hint = Some("exhaustive") -> "Exhaustive"
              [] OTHER -> "Focused")
    ELSE Err("InvalidQuery")

parse_query_scope(scope_hint) ==
    Ok(CASE scope_hint = Some("narrow") -> "Narrow"
         [] scope_hint = Some("focused") -> "Focused"
         [] scope_hint = Some("broad") -> "Broad"
         [] scope_hint = Some("exhaustive") -> "Exhaustive"
         [] OTHER -> "Focused")

parse_query_priority(priority_hint) ==
    Ok(CASE priority_hint = Some("urgent") -> "Urgent"
         [] priority_hint = Some("high") -> "High"
         [] priority_hint = Some("normal") -> "Normal"
         [] priority_hint = Some("background") -> "Background"
         [] OTHER -> "Normal")

extract_context_hints(query) ==
    LET long == LongWordsLower(split_whitespace(query), 4)
    IN SubSeq(long, 1, Min(5, Len(long)))

\* SearchQuery -> IntelligentQuery; every `?` of the function is on an Ok value
parse_search_request(request) ==
    LET intent == infer_query_intent(request.query, request.intent_hint)
        scope == parse_query_scope(request.scope)
        priority == parse_query_priority(request.priority)
    IN IF ~intent.ok THEN intent
       ELSE IF ~scope.ok THEN scope
       ELSE IF ~priority.ok THEN priority
       ELSE Ok([original_query |-> request.query,
                intent |-> intent.val,
                scope |-> scope.val,
                priority |-> priority.val,
                context_hints |-> IF request.context.some
                                  THEN <<request.context.val>>
                                  ELSE extract_context_hints(request.query),
                relationship_depth |-> unwrap_or(request.relationship_depth, 2),
                time_constraint_ms |-> request.time_limit_ms])

(***************************************************************************)
(* Deployment planner (AgentOrchestrator).                                 *)
(***************************************************************************)
\* variant: the kinds follow the order of the intents of the classifier, the
\* TimelineBuilder before the EntityExtractor
determine_scout_types_timeline_first(query) ==
    <<"KeywordHunter">>
    \o (IF contains(query, "when") \/ contains(query, "date")
        THEN <<"TimelineBuilder">> ELSE <<>>)
    \o (IF contains(query, "who") \/ contains(query, "person")
        THEN <<"EntityExtractor">> ELSE <<>>)
    \o (IF contains(query, "relationship") \/ contains(query, "connected")
        THEN <<"RelationshipMapper">> ELSE <<>>)
    \o (IF contains(query, "compliance") \/ contains(query, "legal")
        THEN <<"ComplianceChecker">> ELSE <<>>)
    \o (IF contains(query, "unusual") \/ contains(query, "anomaly")
        THEN <<"AnomalySpotter">> ELSE <<>>)

\* the kinds the adaptive path selects from the raw (not lower-cased) query text
determine_scout_types_by_query_content(query) ==
    <<"KeywordHunter">>
    \o (IF contains(query, "who") \/ contains(query, "person")
        THEN <<"EntityExtractor">> ELSE <<>>)
    \o (IF contains(query, "when") \/ contains(query, "date")
        THEN <<"TimelineBuilder">> ELSE <<>>)
    \o (IF contains(query, "relationship") \/ contains(query, "connected")
        THEN <<"RelationshipMapper">> ELSE <<>>)
    \o (IF contains(query, "compliance") \/ contains(query, "legal")
        THEN <<"ComplianceChecker">> ELSE <<>>)
    \o (IF contains(query, "unusual") \/ contains(query, "anomaly")
        THEN <<"AnomalySpotter">> ELSE <<>>)

\* variant: the cluster target is not raised to 1
exhaustive_background_no_floor(total) ==
    [scout_count |-> 8,
     scout_types |-> <<"KeywordHunter", "PatternDetector", "RelationshipMapper",
                       "EntityExtractor", "TimelineBuilder", "AnomalySpotter",
                       "ComplianceChecker", "SentimentAnalyzer">>,
     target_clusters |-> total \div 100,
     estimated_dead_ends |-> 2,
     parallel_processing |-> TRUE]

\* match arm (QueryScope::Exhaustive, QueryPriority::Background)
exhaustive_background_strategy(total) ==
    [scout_count |-> 8,
     scout_types |-> <<"KeywordHunter", "PatternDetector", "RelationshipMapper",
                       "EntityExtractor", "TimelineBuilder", "AnomalySpotter",
                       "ComplianceChecker", "SentimentAnalyzer">>,
     target_clusters |-> Max(total \div 100, 1),
     estimated_dead_ends |-> 2,
     parallel_processing |-> TRUE]

\* variant: the urgent plan allows one dead end
focused_urgent_sized ==
    [scout_count |-> 3,
     scout_types |-> <<"KeywordHunter", "EntityExtractor", "RelationshipMapper">>,
     target_clusters |-> 1,
     estimated_dead_ends |-> 1,
     parallel_processing |-> TRUE]

\* match arm (QueryScope::Focused, QueryPriority::Urgent)
focused_urgent_strategy ==
    [scout_count |-> 3,
     scout_types |-> <<"KeywordHunter", "EntityExtractor", "RelationshipMapper">>,
     target_clusters |-> 1,
     estimated_dead_ends |-> 0,
     parallel_processing |-> TRUE]

\* variant: the cluster target is not capped at 10
adaptive_strategy_no_cap(original_query, total) ==
    [scout_count |-> 5,
     scout_types |-> determine_scout_types_by_query_content(original_query),
     target_clusters |-> Max(total \div 50, 1),
     estimated_dead_ends |-> 1,
     parallel_processing |-> TRUE]

\* match arm _ : adaptive strategy based on query content
adaptive_strategy(original_query, total) ==
    [scout_count |-> 5,
     scout_types |-> determine_scout_types_by_query_content(original_query),
     target_clusters |-> Min(Max(total \div 50, 1), 10),
     estimated_dead_ends |-> 1,
     parallel_processing |-> TRUE]

\* the match of assess_and_plan_deployment, given the document count it read
select_strategy(query, total) ==
    IF query.scope = "Exhaustive" /\ query.priority = "Background"
    THEN exhaustive_background_strategy(total)
    ELSE IF query.scope = "Focused" /\ query.priority = "Urgent"
    THEN focused_urgent_strategy
    ELSE adaptive_strategy(query.original_query, total)

\* Storage::get_document_count: the number of stored documents, or a StorageError
get_document_count(docs, fails) ==
    IF fails THEN Err("QueryError") ELSE Ok(docs)

\* Storage::get_document_type_distribution: documents per type, or a StorageError
get_document_type_distribution(docs, fails) ==
    IF fails THEN Err("QueryError")
    ELSE Ok([t \in (IF docs > 0 THEN {"pdf"} ELSE {}) |-> docs])

\* Result::unwrap_or_default for a HashMap
unwrap_or_default(r) == IF r.ok THEN r.val ELSE [t \in {} |-> 0]

\* variant: a failed metadata call is returned to the caller
assess_and_plan_deployment_strict(query, count, types) ==
    IF ~count.ok THEN Err("StorageError")
    ELSE IF ~types.ok THEN Err("StorageError")
    ELSE Ok(select_strategy(query, count.val))

\* assess_and_plan_deployment, given what the two metadata calls returned
assess_and_plan_deployment(query, count, types) ==
    LET total == unwrap_or(count, 0)
        document_types == unwrap_or_default(types)
    IN Ok(select_strategy(query, total))

(***************************************************************************)
(* Scouts.                                                                 *)
(***************************************************************************)
extract_keywords(query) == LongWordsLower(split_whitespace(query), 3)

generate_search_patterns(query, scout_type) ==
    IF scout_type = "KeywordHunter" THEN extract_keywords(query) ELSE <<query>>

\* the ScoutAgent that deploy_scout_swarm registers
NewScoutAgent(scout_id, scout_type, query) ==
    [id |-> scout_id,
     agent_type |-> scout_type,
     assigned_documents |-> <<>>,
     search_patterns |-> generate_search_patterns(query, scout_type),
     status |-> "Deployed",
     findings |-> <<>>,
     processing_time_ms |-> 0,
     dead_end_count |-> 0]

\* the locals of a spawned execute_scout_mission task at its start; `keywords`
\* are the patterns its loop has still to search (none for the other kinds)
NewScoutTask(scout_type, query) ==
    [scout_type |-> scout_type,
     at |-> "ready",
     keywords |-> IF scout_type = "KeywordHunter" THEN extract_keywords(query) ELSE <<>>,
     findings |-> <<>>,
     dead_end_count |-> 0,
     store_errors |-> 0]

\* the findings the KeywordHunter pushes for the hits of one search
RECURSIVE HitsToFindings(_, _)
HitsToFindings(results, keyword) ==
    IF results = <<>> THEN <<>>
    ELSE <<[document_id |-> Head(results),
            finding_type |-> "DirectMatch",
            related_entities |-> <<keyword>>]>>
         \o HitsToFindings(Tail(results), keyword)

\* variant: a failed Storage call ends the mission
scout_after_search_abort(task, outcome) ==
    IF outcome.ok
    THEN [task EXCEPT !.findings = @ \o HitsToFindings(outcome.val, Head(task.keywords)),
                      !.dead_end_count = IF outcome.val = <<>> THEN @ + 1 ELSE @,
                      !.keywords = Tail(@),
                      !.at = IF Tail(task.keywords) = <<>> THEN "finished" ELSE "ready"]
    ELSE [task EXCEPT !.dead_end_count = @ + 1, !.store_errors = @ + 1,
                      !.keywords = <<>>, !.at = "finished"]

\* one iteration of the KeywordHunter loop, given what search_documents returned
scout_after_search(task, outcome) ==
    LET keyword == Head(task.keywords)
        rest == Tail(task.keywords)
        t1 == IF outcome.ok
              THEN [task EXCEPT !.findings = @ \o HitsToFindings(outcome.val, keyword),
                                !.dead_end_count =
                                    IF outcome.val = <<>> THEN @ + 1 ELSE @]
              ELSE [task EXCEPT !.dead_end_count = @ + 1, !.store_errors = @ + 1]
    IN [t1 EXCEPT !.keywords = rest,
                  !.at = IF rest = <<>> THEN "finished" ELSE "ready"]

(***************************************************************************)
(* Aggregation steps of execute_intelligent_query.                         *)
(***************************************************************************)
\* variant: an empty collection is reported as an analysis error
collect_scout_findings_err(scout_ids) == Err("AnalysisError")

collect_scout_findings(scout_ids) == Ok(<<>>)

RECURSIVE SumLen(_)
SumLen(lists) == IF lists = <<>> THEN 0 ELSE Len(Head(lists)) + SumLen(Tail(lists))

RECURSIVE Flatten(_)
Flatten(lists) == IF lists = <<>> THEN <<>> ELSE Head(lists) \o Flatten(Tail(lists))

\* variant: a relationship is emitted for every finding that names two
\* entities, and no entity is recorded
RECURSIVE edges_of_findings(_)
edges_of_findings(flat) ==
    IF flat = <<>> THEN <<>>
    ELSE (IF Len(Head(flat).related_entities) >= 2
          THEN <<[from_entity |-> Head(flat).related_entities[1],
                  to_entity |-> Head(flat).related_entities[2],
                  supporting_documents |-> <<Head(flat).document_id>>]>>
          ELSE <<>>)
         \o edges_of_findings(Tail(flat))

analyze_relationships_edges_only(findings) ==
    Ok([relationships |-> edges_of_findings(Flatten(findings)), entities |-> <<>>])

analyze_relationships(findings) == Ok([relationships |-> <<>>, entities |-> <<>>])

\* the dates that excerpts spell, as yyyymmdd; any other excerpt fails to parse
DateOf ==
    [e \in {"2024-01-15", "2023-06-01"} |->
        IF e = "2024-01-15" THEN 20240115 ELSE 20230601]

\* variant: one event per DateReference finding, in arrival order, stamped
\* with the current time when its date does not parse
RECURSIVE events_in_arrival_order(_)
events_in_arrival_order(flat) ==
    IF flat = <<>> THEN <<>>
    ELSE (IF Head(flat).finding_type = "DateReference"
          THEN <<[timestamp |-> IF Head(flat).excerpt \in DOMAIN DateOf
                                THEN DateOf[Head(flat).excerpt] ELSE 20261105,
                  event_type |-> "date",
                  description |-> Head(flat).excerpt,
                  involved_entities |-> Head(flat).related_entities,
                  source_documents |-> <<Head(flat).document_id>>]>>
          ELSE <<>>)
         \o events_in_arrival_order(Tail(flat))

build_timeline_now(findings) == Ok(events_in_arrival_order(Flatten(findings)))

build_timeline(findings) == Ok(<<>>)

identify_document_clusters(findings) == Ok(<<>>)

\* variant: the score is the confidence of the first finding to arrive
calculate_confidence_score_first(findings) ==
    IF Flatten(findings) = <<>> THEN 85 ELSE Head(Flatten(findings)).confidence

\* 0.85, in hundredths
calculate_confidence_score(findings) == 85

generate_recommendations(query, findings) == <<"Expand search to include related terms">>

generate_expansion_suggestions(query, findings) == <<"Search for related entities">>

\* steps 5 to 7 of execute_intelligent_query and the AnalysisResult it builds
\* from the collected findings (processing_time_ms, a wall-clock reading, is
\* left out)
aggregate_findings(query_id, query, deployment_strategy, findings) ==
    LET graph == analyze_relationships(findings)
        timeline == build_timeline(findings)
        clusters == identify_document_clusters(findings)
    IN IF ~graph.ok THEN graph
       ELSE IF ~timeline.ok THEN timeline
       ELSE IF ~clusters.ok THEN clusters
       ELSE Ok([query_id |-> query_id,
                original_query |-> query.original_query,
                scouts_deployed |-> deployment_strategy.scout_count,
                documents_analyzed |-> SumLen(findings),
                findings |-> Flatten(findings),
                relationships |-> graph.val.relationships,
                entities |-> graph.val.entities,
                timeline |-> timeline.val,
                document_clusters |-> clusters.val,
                confidence_score |-> calculate_confidence_score(findings),
                recommendations |-> generate_recommendations(query, findings),
                dead_ends |-> deployment_strategy.estimated_dead_ends,
                expansion_suggestions |-> generate_expansion_suggestions(query, findings)])

\* steps 4 to 7 of execute_intelligent_query
build_analysis_result(query_id, query, deployment_strategy, scout_ids) ==
    LET collected == collect_scout_findings(scout_ids)
    IN IF ~collected.ok THEN collected
       ELSE aggregate_findings(query_id, query, deployment_strategy, collected.val)

(***************************************************************************)
(* Response of IntelligentSearchEngine::search.                            *)
(***************************************************************************)
RECURSIVE transform_findings_to_matches(_)
transform_findings_to_matches(findings) ==
    IF findings = <<>> THEN <<>>
    ELSE <<[document_id |-> Head(findings).document_id,
            match_type |-> IF Head(findings).finding_type = "DirectMatch" THEN "ExactMatch"
                           ELSE IF Head(findings).finding_type = "RelatedConcept"
                           THEN "ConceptualMatch" ELSE "SemanticMatch"]>>
         \o transform_findings_to_matches(Tail(findings))

\* field by field copy of every event, in the order of the list
transform_timeline(timeline) ==
    [i \in 1..Len(timeline) |->
        [timestamp |-> timeline[i].timestamp,
         event_type |-> timeline[i].event_type,
         description |-> timeline[i].description,
         involved_entities |-> timeline[i].involved_entities,
         source_documents |-> timeline[i].source_documents]]

build_search_response(query_id, request, analysis_result) ==
    Ok([query_id |-> query_id,
        original_query |-> request.query,
        confidence_score |-> analysis_result.confidence_score,
        scouts_deployed |-> analysis_result.scouts_deployed,
        documents_analyzed |-> analysis_result.documents_analyzed,
        direct_matches |-> transform_findings_to_matches(analysis_result.findings),
        related_concepts |-> <<>>,
        entities |-> analysis_result.entities,
        relationships |-> analysis_result.relationships,
        timeline |-> transform_timeline(analysis_result.timeline),
        document_clusters |-> analysis_result.document_clusters,
        insights |-> <<>>,
        risk_indicators |-> <<>>,
        compliance_flags |-> <<>>,
        anomalies |-> <<>>,
        recommendations |-> <<>>,
        expansion_suggestions |-> analysis_result.expansion_suggestions,
        related_queries |-> <<>>,
        dead_end_paths |-> <<>>,
        cache_hit |-> FALSE,
        dead_ends_encountered |-> analysis_result.dead_ends,
        search_depth_achieved |-> 2])

(***************************************************************************)
(* State.                                                                  *)
(***************************************************************************)
Calls == 1..MaxCalls

\* Uuid::new_v4 never repeats: one identifier per place that draws one
SearchId(c) == <<"search", c>>
QueryId(c) == <<"query", c>>
ScoutId(c, i) == <<"scout", c, i>>

\* the tokio Mutex around Storage is free, or held by a planner or a scout task
Free == <<>>

\* the tokio Mutexes of IntelligentSearchEngine and AgentOrchestrator
Locks == {"storage", "active_scouts", "query_cache", "query_history", "active_queries"}

\* the tasks that take them: every search call and the KeywordHunter it spawns
LockTasks == {<<"search", c>> : c \in Calls} \cup {<<"scout", c>> : c \in Calls}

\* taking a Mutex (lock().await) and dropping its guard
Acq(l) == [op |-> "lock", lock |-> l]
Rel(l) == [op |-> "unlock", lock |-> l]

\* a task that does not exist yet
NotStarted == <<[op |-> "start", lock |-> "none"]>>

VARIABLES
    pc,              \* where each search call stands
    request,         \* the SearchQuery of each call
    iquery,          \* its IntelligentQuery
    total_docs,      \* local total_docs of assess_and_plan_deployment
    strategy,        \* local deployment_strategy of execute_intelligent_query
    analysis,        \* what execute_intelligent_query returned to the call
    response,        \* what search returned
    doc_count,       \* number of documents in the Storage
    storage_lock,    \* holder of Arc<Mutex<Storage>>
    active_scouts,   \* AgentOrchestrator.active_scouts: Uuid -> ScoutAgent
    query_cache,     \* AgentOrchestrator.query_cache: String -> AnalysisResult
    query_history,   \* IntelligentSearchEngine.query_history
    active_queries,  \* IntelligentSearchEngine.active_queries (its keys)
    tasks,           \* the spawned execute_scout_mission tasks: Uuid -> locals
    deadline_passed, \* the time budget of the call ran out while it was suspended
    cache_seen,      \* the query_cache entry of the call's query string when the call began
    store_calls,     \* Storage calls made for the call, by it and by its scouts
    metadata,        \* what the two metadata calls of the call's planner returned
    worker_findings, \* findings: &[Vec<ScoutFinding>] handed to the aggregation steps
    aggregated,      \* what the aggregation steps made of worker_findings
    lock_holder,     \* holder of each tokio Mutex of the engine
    lock_ops         \* the lock operations each task has still to perform

vars ==
    <<pc, request, iquery, total_docs, strategy, analysis, response, doc_count,
      storage_lock, active_scouts, query_cache, query_history, active_queries,
      tasks, deadline_passed, cache_seen, store_calls, metadata, worker_findings,
      aggregated, lock_holder, lock_ops>>

\* HashMap::insert
Insert(map, key, value) ==
    [k \in DOMAIN map \cup {key} |-> IF k = key THEN value ELSE map[k]]

EmptyMap == [k \in {} |-> None]

\* what the Storage may answer to one search_documents call: a StorageError or
\* the documents that match, best first
SearchOutcomes == {Err("QueryError"), Ok(<<>>), Ok(<<"d1">>)}

\* the search requests the callers send
NoHints(q) ==
    [query |-> q, context |-> None, intent_hint |-> None, scope |-> None,
     priority |-> None, relationship_depth |-> None, time_limit_ms |-> None,
     user_id |-> None]

Requests ==
    {NoHints("find John"),
     [NoHints("who is Jo") EXCEPT !.scope = Some("focused"), !.priority = Some("urgent")],
     [NoHints("why") EXCEPT !.scope = Some("exhaustive"), !.priority = Some("background")]}

StoreSizes == {120}

Init ==
    /\ pc = [c \in Calls |-> "idle"]
    /\ request = [c \in Calls |-> None]
    /\ iquery = [c \in Calls |-> None]
    /\ total_docs = [c \in Calls |-> 0]
    /\ strategy = [c \in Calls |-> None]
    /\ analysis = [c \in Calls |-> None]
    /\ response = [c \in Calls |-> None]
    /\ doc_count \in StoreSizes
    /\ storage_lock = Free
    /\ active_scouts = EmptyMap
    /\ query_cache = EmptyMap
    /\ query_history = <<>>
    /\ active_queries = {}
    /\ tasks = EmptyMap
    /\ deadline_passed = [c \in Calls |-> FALSE]
    /\ cache_seen = [c \in Calls |-> None]
    /\ store_calls = [c \in Calls |-> 0]
    /\ metadata = [c \in Calls |-> None]
    /\ worker_findings = <<>>
    /\ aggregated = None
    /\ lock_holder = [l \in Locks |-> Free]
    /\ lock_ops = [p \in LockTasks |-> NotStarted]

(***************************************************************************)
(* IntelligentSearchEngine::search and AgentOrchestrator, step by step.    *)
(***************************************************************************)
\* variant: the lookup never finds the entry
check_query_cache_miss(cache, query) == None

\* variant: the lookup ignores letter case
check_query_cache_folded(cache, query) ==
    IF \E k \in DOMAIN cache : to_lowercase(k) = to_lowercase(query)
    THEN Some(cache[CHOOSE k \in DOMAIN cache : to_lowercase(k) = to_lowercase(query)])
    ELSE None

check_query_cache(cache, query) ==
    IF query \in DOMAIN cache THEN Some(cache[query]) ELSE None

cache_result(cache, query, result) == Insert(cache, query, result)

\* the query has a time budget: by its priority, or by an explicit limit
HasBudget(query) ==
    query.priority \in {"Urgent", "High", "Normal"} \/ query.time_constraint_ms.some

\* search up to the cache check of execute_intelligent_query: parse the request,
\* track the query, return the cached AnalysisResult on a hit.  Calls are
\* interchangeable, so they are numbered in the order they begin.
SearchBegin(c, req) ==
    /\ UNCHANGED <<metadata, worker_findings, aggregated, lock_holder, lock_ops>>
    /\ pc[c] = "idle"
    /\ \A d \in Calls : d < c => pc[d] # "idle"
    /\ LET parsed == parse_search_request(req)
           cached == check_query_cache(query_cache, req.query)
       IN /\ request' = [request EXCEPT ![c] = req]
          /\ IF ~parsed.ok
             THEN /\ response' = [response EXCEPT ![c] = Err("InvalidQuery")]
                  /\ pc' = [pc EXCEPT ![c] = "done"]
                  /\ UNCHANGED <<iquery, active_queries, cache_seen, analysis>>
             ELSE /\ iquery' = [iquery EXCEPT ![c] = parsed.val]
                  /\ active_queries' = active_queries \cup {SearchId(c)}
                  /\ cache_seen' = [cache_seen EXCEPT ![c] =
                                        IF req.query \in DOMAIN query_cache
                                        THEN Some(query_cache[req.query]) ELSE None]
                  /\ IF cached.some
                     THEN /\ analysis' = [analysis EXCEPT ![c] = Ok(cached.val)]
                          /\ pc' = [pc EXCEPT ![c] = "respond"]
                     ELSE /\ pc' = [pc EXCEPT ![c] = "plan_lock"]
                          /\ UNCHANGED analysis
                  /\ UNCHANGED response
    /\ UNCHANGED <<total_docs, strategy, doc_count, storage_lock, active_scouts,
                   query_cache, query_history, tasks, deadline_passed, store_calls>>

\* assess_and_plan_deployment: self.storage.lock().await
PlanLock(c) ==
    /\ UNCHANGED <<metadata, worker_findings, aggregated, lock_holder, lock_ops>>
    /\ pc[c] = "plan_lock"
    /\ storage_lock = Free
    /\ storage_lock' = QueryId(c)
    /\ pc' = [pc EXCEPT ![c] = "planning"]
    /\ UNCHANGED <<request, iquery, total_docs, strategy, analysis, response, doc_count,
                   active_scouts, query_cache, query_history, active_queries, tasks,
                   deadline_passed, cache_seen, store_calls>>

\* assess_and_plan_deployment from the two metadata calls to its return, where
\* the guard on the Storage is dropped
PlanMetadata(c) ==
    /\ pc[c] = "planning"
    /\ \E count_fails \in BOOLEAN, types_fail \in BOOLEAN :
         LET count == get_document_count(doc_count, count_fails)
             types == get_document_type_distribution(doc_count, types_fail)
             planned == assess_and_plan_deployment(iquery[c], count, types)
         IN /\ metadata' = [metadata EXCEPT ![c] = [count |-> count, types |-> types]]
            /\ total_docs' = [total_docs EXCEPT ![c] = unwrap_or(count, 0)]
            /\ IF planned.ok
               THEN /\ strategy' = [strategy EXCEPT ![c] = planned.val]
                    /\ pc' = [pc EXCEPT ![c] = "deploy"]
                    /\ UNCHANGED analysis
               ELSE /\ analysis' = [analysis EXCEPT ![c] = planned]
                    /\ pc' = [pc EXCEPT ![c] = "respond"]
                    /\ UNCHANGED strategy
    /\ storage_lock' = Free
    /\ store_calls' = [store_calls EXCEPT ![c] = @ + 2]
    /\ UNCHANGED <<request, iquery, response, doc_count, active_scouts,
                   query_cache, query_history, active_queries, tasks, deadline_passed,
                   cache_seen, worker_findings, aggregated, lock_holder, lock_ops>>

\* the scouts of a call, in the order of its strategy's scout_types
ScoutIds(c) == [i \in 1..Len(strategy[c].scout_types) |-> ScoutId(c, i)]

\* deploy_scout_swarm: under the active_scouts lock, register one ScoutAgent per
\* entry of scout_types and spawn its task
deploy_scout_swarm(scouts, c) ==
    LET kinds == strategy[c].scout_types
        new == {ScoutId(c, i) : i \in 1..Len(kinds)}
    IN [id \in DOMAIN scouts \cup new |->
           IF id \in new
           THEN NewScoutAgent(id, kinds[id[3]], iquery[c].original_query)
           ELSE scouts[id]]

\* tokio::spawn of execute_scout_mission for every entry of scout_types; the
\* JoinHandles are dropped when deploy_scout_swarm returns
spawn_scout_tasks(running, c) ==
    LET kinds == strategy[c].scout_types
        new == {ScoutId(c, i) : i \in 1..Len(kinds)}
    IN [id \in DOMAIN running \cup new |->
           IF id \in new
           THEN NewScoutTask(kinds[id[3]], iquery[c].original_query)
           ELSE running[id]]

\* execute_intelligent_query from deploy_scout_swarm to its return: nothing in
\* it waits for a scout or for the Storage; the AnalysisResult is built and cached
DeployAndAggregate(c) ==
    /\ UNCHANGED <<metadata, worker_findings, aggregated, lock_holder, lock_ops>>
    /\ pc[c] = "deploy"
    /\ active_scouts' = deploy_scout_swarm(active_scouts, c)
    /\ tasks' = spawn_scout_tasks(tasks, c)
    /\ LET result == build_analysis_result(QueryId(c), iquery[c], strategy[c], ScoutIds(c))
       IN /\ analysis' = [analysis EXCEPT ![c] = result]
          /\ query_cache' = IF result.ok
                            THEN cache_result(query_cache, iquery[c].original_query, result.val)
                            ELSE query_cache
    /\ pc' = [pc EXCEPT ![c] = "respond"]
    /\ UNCHANGED <<request, iquery, total_docs, strategy, response, doc_count,
                   storage_lock, query_history, active_queries,
                   deadline_passed, cache_seen, store_calls>>

\* variant: the history keeps the latest query only
store_query_history_latest(history, req, resp) ==
    <<[query_id |-> resp.query_id,
       query |-> req.query,
       results_count |-> Len(resp.direct_matches),
       user_id |-> req.user_id]>>

\* store_query_history
store_query_history(history, req, resp) ==
    Append(history, [query_id |-> resp.query_id,
                     query |-> req.query,
                     results_count |-> Len(resp.direct_matches),
                     user_id |-> req.user_id])

\* search after execute_intelligent_query returned: an Err returns at once as
\* OrchestrationFailed, an Ok becomes the response, is logged in the history and
\* the query is untracked
Respond(c) ==
    /\ UNCHANGED <<metadata, worker_findings, aggregated, lock_holder, lock_ops>>
    /\ pc[c] = "respond"
    /\ IF analysis[c].ok
       THEN LET built == build_search_response(SearchId(c), request[c], analysis[c].val)
            IN /\ response' = [response EXCEPT ![c] = built]
               /\ IF built.ok
                  THEN /\ query_history' = store_query_history(query_history, request[c], built.val)
                       /\ active_queries' = active_queries \ {SearchId(c)}
                  ELSE UNCHANGED <<query_history, active_queries>>
       ELSE /\ response' = [response EXCEPT ![c] = Err("OrchestrationFailed")]
            /\ UNCHANGED <<query_history, active_queries>>
    /\ pc' = [pc EXCEPT ![c] = "done"]
    /\ UNCHANGED <<request, iquery, total_docs, strategy, analysis, doc_count,
                   storage_lock, active_scouts, query_cache, tasks, deadline_passed,
                   cache_seen, store_calls>>

\* the time budget of a call runs out while the call is suspended on the
\* Storage (waiting for its lock, or inside its metadata calls): no timer is
\* armed anywhere, so nothing else changes
DeadlinePasses(c) ==
    /\ UNCHANGED <<metadata, worker_findings, aggregated, lock_holder, lock_ops>>
    /\ pc[c] \in {"plan_lock", "planning"}
    /\ pc[c] = "plan_lock" => storage_lock # Free
    /\ HasBudget(iquery[c])
    /\ ~deadline_passed[c]
    /\ deadline_passed' = [deadline_passed EXCEPT ![c] = TRUE]
    /\ UNCHANGED <<pc, request, iquery, total_docs, strategy, analysis, response,
                   doc_count, storage_lock, active_scouts, query_cache, query_history,
                   active_queries, tasks, cache_seen, store_calls>>

(***************************************************************************)
(* A spawned execute_scout_mission task.                                   *)
(***************************************************************************)
\* a task with nothing to search (a KeywordHunter without keywords, or one of
\* the other kinds) runs to its end without suspending and touches no shared
\* state: such tasks of one call are taken in the order they were spawned
Idle(id) == id \in DOMAIN tasks /\ tasks[id].at = "ready" /\ tasks[id].keywords = <<>>

ScoutRun(id) ==
    /\ UNCHANGED <<metadata, worker_findings, aggregated, lock_holder, lock_ops>>
    /\ Idle(id)
    /\ \A j \in 1..(id[3] - 1) : ~Idle(ScoutId(id[2], j))
    /\ tasks' = [tasks EXCEPT ![id].at = "finished"]
    /\ UNCHANGED <<pc, request, iquery, total_docs, strategy, analysis, response,
                   doc_count, storage_lock, active_scouts, query_cache, query_history,
                   active_queries, deadline_passed, cache_seen, store_calls>>

\* KeywordHunter: storage.lock().await for the next keyword
ScoutLock(id) ==
    /\ UNCHANGED <<metadata, worker_findings, aggregated, lock_holder, lock_ops>>
    /\ id \in DOMAIN tasks
    /\ tasks[id].at = "ready"
    /\ tasks[id].keywords # <<>>
    /\ storage_lock = Free
    /\ storage_lock' = id
    /\ tasks' = [tasks EXCEPT ![id].at = "searching"]
    /\ UNCHANGED <<pc, request, iquery, total_docs, strategy, analysis, response,
                   doc_count, active_scouts, query_cache, query_history,
                   active_queries, deadline_passed, cache_seen, store_calls>>

\* KeywordHunter: search_documents returns; the match arm runs and the guard
\* on the Storage is dropped
ScoutSearchDone(id) ==
    /\ UNCHANGED <<metadata, worker_findings, aggregated, lock_holder, lock_ops>>
    /\ id \in DOMAIN tasks
    /\ tasks[id].at = "searching"
    /\ \E outcome \in SearchOutcomes :
         tasks' = [tasks EXCEPT ![id] = scout_after_search(@, outcome)]
    /\ storage_lock' = Free
    /\ store_calls' = [store_calls EXCEPT ![id[2]] = @ + 1]
    /\ UNCHANGED <<pc, request, iquery, total_docs, strategy, analysis, response,
                   doc_count, active_scouts, query_cache, query_history,
                   active_queries, deadline_passed, cache_seen>>

AllScoutIds == {ScoutId(c, i) : c \in Calls, i \in 1..8}

Next ==
    \/ \E c \in Calls, req \in Requests : SearchBegin(c, req)
    \/ \E c \in Calls : PlanLock(c)
    \/ \E c \in Calls : PlanMetadata(c)
    \/ \E c \in Calls : DeployAndAggregate(c)
    \/ \E c \in Calls : Respond(c)
    \/ \E c \in Calls : DeadlinePasses(c)
    \/ \E id \in AllScoutIds : ScoutRun(id)
    \/ \E id \in AllScoutIds : ScoutLock(id)
    \/ \E id \in AllScoutIds : ScoutSearchDone(id)

Spec == Init /\ [][Next]_vars

(***************************************************************************)
(* The planner alone: one call, every scope and priority, every document   *)
(* count up to MaxDocs, taken as far as the plan.                          *)
(***************************************************************************)
PlannerRequests ==
    {[NoHints(q) EXCEPT !.scope = s, !.priority = p] :
        q \in {"find John", "who signed", "Who signed",
               "who when relationship legal unusual"},
        s \in {None, Some("focused"), Some("broad"), Some("exhaustive")},
        p \in {None, Some("urgent"), Some("background")}}

PlannerInit ==
    /\ pc = [c \in Calls |-> "idle"]
    /\ request = [c \in Calls |-> None]
    /\ iquery = [c \in Calls |-> None]
    /\ total_docs = [c \in Calls |-> 0]
    /\ strategy = [c \in Calls |-> None]
    /\ analysis = [c \in Calls |-> None]
    /\ response = [c \in Calls |-> None]
    /\ doc_count \in 0..MaxDocs
    /\ storage_lock = Free
    /\ active_scouts = EmptyMap
    /\ query_cache = EmptyMap
    /\ query_history = <<>>
    /\ active_queries = {}
    /\ tasks = EmptyMap
    /\ deadline_passed = [c \in Calls |-> FALSE]
    /\ cache_seen = [c \in Calls |-> None]
    /\ store_calls = [c \in Calls |-> 0]
    /\ metadata = [c \in Calls |-> None]
    /\ worker_findings = <<>>
    /\ aggregated = None
    /\ lock_holder = [l \in Locks |-> Free]
    /\ lock_ops = [p \in LockTasks |-> NotStarted]

PlannerNext ==
    \/ \E req \in PlannerRequests : SearchBegin(1, req)
    \/ PlanLock(1)
    \/ PlanMetadata(1)

PlannerSpec == PlannerInit /\ [][PlannerNext]_vars

(***************************************************************************)
(* The engine under query strings that differ only in letter case or in    *)
(* whitespace.                                                             *)
(***************************************************************************)
CacheRequests == {NoHints("who Find"), NoHints("who find"), NoHints("who  find")}

CacheNext ==
    \/ \E c \in Calls, req \in CacheRequests : SearchBegin(c, req)
    \/ \E c \in Calls : PlanLock(c)
    \/ \E c \in Calls : PlanMetadata(c)
    \/ \E c \in Calls : DeployAndAggregate(c)
    \/ \E c \in Calls : Respond(c)
    \/ \E c \in Calls : DeadlinePasses(c)
    \/ \E id \in AllScoutIds : ScoutRun(id)
    \/ \E id \in AllScoutIds : ScoutLock(id)
    \/ \E id \in AllScoutIds : ScoutSearchDone(id)

CacheSpec == Init /\ [][CacheNext]_vars

(***************************************************************************)
(* The aggregation steps alone: the findings of up to MaxWorkers scouts,   *)
(* in the order the scouts reported, are aggregated for one query and the  *)
(* response is built from the AnalysisResult.                              *)
(***************************************************************************)
Finding(doc, kind, conf, text, names) ==
    [document_id |-> doc, finding_type |-> kind, confidence |-> conf,
     excerpt |-> text, related_entities |-> names]

SampleFindings ==
    {Finding("d1", "PersonMention", 90, "Jane Doe signed", <<"Jane Doe", "Acme">>),
     Finding("d2", "PersonMention", 60, "jane doe", <<"Jane Doe">>),
     Finding("d1", "DateReference", 80, "2024-01-15", <<>>),
     Finding("d2", "DateReference", 70, "someday", <<>>),
     Finding("d3", "DateReference", 75, "2023-06-01", <<>>)}

SeqsUpTo(S, n) == UNION {[1..k -> S] : k \in 0..n}

AggregatorRequest == NoHints("find John")

AggregatorInit ==
    /\ pc = [c \in Calls |-> "idle"]
    /\ request = [c \in Calls |-> None]
    /\ iquery = [c \in Calls |-> None]
    /\ total_docs = [c \in Calls |-> 0]
    /\ strategy = [c \in Calls |-> None]
    /\ analysis = [c \in Calls |-> None]
    /\ response = [c \in Calls |-> None]
    /\ doc_count \in StoreSizes
    /\ storage_lock = Free
    /\ active_scouts = EmptyMap
    /\ query_cache = EmptyMap
    /\ query_history = <<>>
    /\ active_queries = {}
    /\ tasks = EmptyMap
    /\ deadline_passed = [c \in Calls |-> FALSE]
    /\ cache_seen = [c \in Calls |-> None]
    /\ store_calls = [c \in Calls |-> 0]
    /\ metadata = [c \in Calls |-> None]
    /\ worker_findings \in [1..MaxWorkers -> SeqsUpTo(SampleFindings, MaxFindings)]
    /\ aggregated = None
    /\ lock_holder = [l \in Locks |-> Free]
    /\ lock_ops = [p \in LockTasks |-> NotStarted]

\* steps 5 to 7 of execute_intelligent_query on the findings handed over
Aggregate ==
    /\ aggregated = None
    /\ LET query == parse_search_request(AggregatorRequest).val
       IN aggregated' = aggregate_findings(QueryId(1), query,
                                           select_strategy(query, doc_count),
                                           worker_findings)
    /\ UNCHANGED <<pc, request, iquery, total_docs, strategy, analysis, response,
                   doc_count, storage_lock, active_scouts, query_cache, query_history,
                   active_queries, tasks, deadline_passed, cache_seen, store_calls,
                   metadata, worker_findings, lock_holder, lock_ops>>

\* build_search_response on the AnalysisResult
AggregateRespond ==
    /\ aggregated # None
    /\ aggregated.ok
    /\ response[1] = None
    /\ response' = [response EXCEPT ![1] =
                        build_search_response(SearchId(1), AggregatorRequest, aggregated.val)]
    /\ UNCHANGED <<pc, request, iquery, total_docs, strategy, analysis,
                   doc_count, storage_lock, active_scouts, query_cache, query_history,
                   active_queries, tasks, deadline_passed, cache_seen, store_calls,
                   metadata, worker_findings, aggregated, lock_holder, lock_ops>>

AggregatorNext == Aggregate \/ AggregateRespond

AggregatorSpec == AggregatorInit /\ [][AggregatorNext]_vars

(***************************************************************************)
(* The adaptive kind selection: one call on the adaptive path, with the    *)
(* trigger words in several orders, letter cases and synonyms, taken as    *)
(* far as the plan.                                                        *)
(***************************************************************************)
KindRequests ==
    {[NoHints(q) EXCEPT !.scope = s, !.priority = p] :
        q \in {"find John", "who when relationship legal unusual",
               "unusual legal relationship when who", "Who signed", "who signed",
               "date legal", "timeline person", "anomaly compliance connected"},
        s \in {None, Some("broad"), Some("narrow")},
        p \in {None, Some("high")}}

KindNext ==
    \/ \E req \in KindRequests : SearchBegin(1, req)
    \/ PlanLock(1)
    \/ PlanMetadata(1)

KindSpec == Init /\ [][KindNext]_vars

(***************************************************************************)
(* The return of search alone: one call stands where                       *)
(* execute_intelligent_query has just returned, with every value of its    *)
(* Result type, and search runs to its return.                             *)
(***************************************************************************)
OrchestrationError == {"StorageError", "ScoutDeploymentError", "AnalysisError"}

\* what execute_intelligent_query may hand back for a query
OrchestrationResults(query) ==
    {Err(e) : e \in OrchestrationError}
    \cup {aggregate_findings(QueryId(1), query, select_strategy(query, 0), <<>>)}

ReturnInit ==
    /\ \E req \in KindRequests :
          /\ request = [c \in Calls |-> IF c = 1 THEN req ELSE None]
          /\ iquery = [c \in Calls |-> IF c = 1 THEN parse_search_request(req).val ELSE None]
          /\ analysis \in [Calls -> OrchestrationResults(parse_search_request(req).val)
                                      \cup {None}]
    /\ analysis[1] # None
    /\ \A c \in Calls \ {1} : analysis[c] = None
    /\ pc = [c \in Calls |-> IF c = 1 THEN "respond" ELSE "idle"]
    /\ active_queries = {SearchId(1)}
    /\ total_docs = [c \in Calls |-> 0]
    /\ strategy = [c \in Calls |-> None]
    /\ response = [c \in Calls |-> None]
    /\ doc_count \in StoreSizes
    /\ storage_lock = Free
    /\ active_scouts = EmptyMap
    /\ query_cache = EmptyMap
    /\ query_history = <<>>
    /\ tasks = EmptyMap
    /\ deadline_passed = [c \in Calls |-> FALSE]
    /\ cache_seen = [c \in Calls |-> None]
    /\ store_calls = [c \in Calls |-> 0]
    /\ metadata = [c \in Calls |-> None]
    /\ worker_findings = <<>>
    /\ aggregated = None
    /\ lock_holder = [l \in Locks |-> Free]
    /\ lock_ops = [p \in LockTasks |-> NotStarted]

ReturnNext == Respond(1)

ReturnSpec == ReturnInit /\ [][ReturnNext]_vars

(***************************************************************************)
(* The locking of the engine alone: every Mutex of                         *)
(* IntelligentSearchEngine and AgentOrchestrator, and for every search     *)
(* call and every KeywordHunter the lock().await and guard drops of its    *)
(* code, in order.                                                         *)
(***************************************************************************)
\* variant: the planner reads the cache under the Storage guard, and
\* cache_result reads the Storage under the cache guard
search_lock_ops_nested(hit) ==
    <<Acq("active_queries"), Rel("active_queries"),
      Acq("query_cache"), Rel("query_cache")>>
    \o (IF hit THEN <<>>
        ELSE <<Acq("storage"), Acq("query_cache"), Rel("query_cache"), Rel("storage"),
               Acq("active_scouts"), Rel("active_scouts"),
               Acq("query_cache"), Acq("storage"), Rel("storage"), Rel("query_cache")>>)
    \o <<Acq("query_history"), Rel("query_history"),
         Acq("active_queries"), Rel("active_queries")>>

\* search: track the query, check_query_cache, then on a miss
\* assess_and_plan_deployment, deploy_scout_swarm and cache_result, then
\* store_query_history and untrack the query
search_lock_ops(hit) ==
    <<Acq("active_queries"), Rel("active_queries"),
      Acq("query_cache"), Rel("query_cache")>>
    \o (IF hit THEN <<>>
        ELSE <<Acq("storage"), Rel("storage"),
               Acq("active_scouts"), Rel("active_scouts"),
               Acq("query_cache"), Rel("query_cache")>>)
    \o <<Acq("query_history"), Rel("query_history"),
         Acq("active_queries"), Rel("active_queries")>>

\* execute_scout_mission of a KeywordHunter: the Storage, once per keyword
RECURSIVE scout_lock_ops(_)
scout_lock_ops(keywords) ==
    IF keywords = <<>> THEN <<>>
    ELSE <<Acq("storage"), Rel("storage")>> \o scout_lock_ops(Tail(keywords))

LockQuery == "find John"

Started(p) == lock_ops[p] # NotStarted
Finished(p) == lock_ops[p] = <<>>
\* the result of some call is in the cache: its cache_result is behind it
SomeResultCached ==
    \E d \in Calls : Started(<<"search", d>>) /\ Len(lock_ops[<<"search", d>>]) <= 4

\* a search call begins; on a cache hit it will skip the pipeline
LockStart(c, hit) ==
    /\ ~Started(<<"search", c>>)
    /\ \A d \in Calls : d < c => Started(<<"search", d>>)
    /\ hit => SomeResultCached
    /\ lock_ops' = [lock_ops EXCEPT ![<<"search", c>>] = search_lock_ops(hit)]
    /\ UNCHANGED <<pc, request, iquery, total_docs, strategy, analysis, response,
                   doc_count, storage_lock, active_scouts, query_cache, query_history,
                   active_queries, tasks, deadline_passed, cache_seen, store_calls,
                   metadata, worker_findings, aggregated, lock_holder>>

\* lock().await returns; deploy_scout_swarm spawns the KeywordHunter under
\* the guard of active_scouts
LockAcquire(p) ==
    /\ Started(p)
    /\ ~Finished(p)
    /\ Head(lock_ops[p]).op = "lock"
    /\ lock_holder[Head(lock_ops[p]).lock] = Free
    /\ lock_holder' = [lock_holder EXCEPT ![Head(lock_ops[p]).lock] = p]
    /\ lock_ops' =
          [q \in LockTasks |->
              IF q = p THEN Tail(lock_ops[p])
              ELSE IF /\ p[1] = "search"
                      /\ Head(lock_ops[p]).lock = "active_scouts"
                      /\ q = <<"scout", p[2]>>
                   THEN scout_lock_ops(extract_keywords(LockQuery))
                   ELSE lock_ops[q]]
    /\ UNCHANGED <<pc, request, iquery, total_docs, strategy, analysis, response,
                   doc_count, storage_lock, active_scouts, query_cache, query_history,
                   active_queries, tasks, deadline_passed, cache_seen, store_calls,
                   metadata, worker_findings, aggregated>>

\* the guard is dropped
LockRelease(p) ==
    /\ Started(p)
    /\ ~Finished(p)
    /\ Head(lock_ops[p]).op = "unlock"
    /\ lock_holder[Head(lock_ops[p]).lock] = p
    /\ lock_holder' = [lock_holder EXCEPT ![Head(lock_ops[p]).lock] = Free]
    /\ lock_ops' = [lock_ops EXCEPT ![p] = Tail(@)]
    /\ UNCHANGED <<pc, request, iquery, total_docs, strategy, analysis, response,
                   doc_count, storage_lock, active_scouts, query_cache, query_history,
                   active_queries, tasks, deadline_passed, cache_seen, store_calls,
                   metadata, worker_findings, aggregated>>

LockNext ==
    \/ \E c \in Calls, hit \in BOOLEAN : LockStart(c, hit)
    \/ \E p \in LockTasks : LockAcquire(p)
    \/ \E p \in LockTasks : LockRelease(p)

\* every task that can take a step is scheduled
LockLiveSpec ==
    /\ Init
    /\ [][LockNext]_vars
    /\ \A p \in LockTasks : WF_vars(LockAcquire(p)) /\ WF_vars(LockRelease(p))

(***************************************************************************)
(* The classifier alone: one call, every combination of absent, matching,  *)
(* differently cased and unknown hints, taken as far as the parsed query.  *)
(***************************************************************************)
ClassifierRequests ==
    {[NoHints(q) EXCEPT !.intent_hint = i, !.scope = s, !.priority = p] :
        q \in {"find John", "who signed", "WHEN legal"},
        i \in {None, Some("timeline"), Some("Timeline"), Some("RISK"), Some("bogus")},
        s \in {None, Some("exhaustive"), Some("EXHAUSTIVE"), Some("Broad"), Some("everything")},
        p \in {None, Some("urgent"), Some("Urgent"), Some("background"), Some("asap")}}

ClassifierNext == \E req \in ClassifierRequests : SearchBegin(1, req)

ClassifierSpec == Init /\ [][ClassifierNext]_vars

(***************************************************************************)
(* Properties.                                                             *)
(***************************************************************************)
Returned(c) == pc[c] \in {"respond", "done"}
Planned(c) == pc[c] \in {"deploy", "respond", "done"} /\ ~cache_seen[c].some
TasksOf(c) == {id \in DOMAIN tasks : id[2] = c}
Adaptive(q) ==
    /\ ~(q.scope = "Exhaustive" /\ q.priority = "Background")
    /\ ~(q.scope = "Focused" /\ q.priority = "Urgent")

RECURSIVE SumDeadEnds(_, _)
SumDeadEnds(c, n) ==
    IF n = 0 THEN 0 ELSE tasks[ScoutId(c, n)].dead_end_count + SumDeadEnds(c, n - 1)

\* C1: a call that begins while the result cache holds an entry for its exact
\* query string gets that entry back by value from execute_intelligent_query,
\* spawns no scout task and makes no Storage call.
C1_CachedQueryIsIdempotent ==
    \A c \in Calls :
        (Returned(c) /\ cache_seen[c].some) =>
            /\ analysis[c] = Ok(cache_seen[c].val)
            /\ TasksOf(c) = {}
            /\ store_calls[c] = 0

\* C1 witness: a call answered from the cache has returned its response.
C1_Witness ==
    \E c \in Calls :
        /\ pc[c] = "done"
        /\ cache_seen[c].some
        /\ response[c].ok
        /\ \E d \in Calls : d # c /\ analysis[d].ok /\ analysis[c] = analysis[d]

\* C2: for every query that ran the pipeline, scouts_deployed of its
\* AnalysisResult equals the length of the plan's scout_types and the number of
\* scout tasks spawned for it.
C2_ScoutsDeployedIsPlanLength ==
    \A c \in Calls :
        (Returned(c) /\ ~cache_seen[c].some /\ analysis[c].ok) =>
            /\ analysis[c].val.scouts_deployed = Len(strategy[c].scout_types)
            /\ analysis[c].val.scouts_deployed = Cardinality(TasksOf(c))

\* C3: a call with a time budget whose budget ran out while it was suspended on
\* the Storage has returned (a partial result or an error); it does not go on
\* waiting.
C3_ReturnsWhenBudgetIsSpent ==
    \A c \in Calls : deadline_passed[c] => pc[c] = "done"

\* C4: search returns an error exactly when execute_intelligent_query failed,
\* and then the error is OrchestrationFailed; a call none of whose scouts has
\* found anything returns a successful response without matches.
C4_FailureIsTypedAndEmptyIsOk ==
    \A c \in Calls :
        pc[c] = "done" =>
            /\ response[c].ok <=> analysis[c].ok
            /\ ~response[c].ok => response[c] = Err("OrchestrationFailed")
            /\ (\A id \in TasksOf(c) : tasks[id].findings = <<>>) =>
                   (response[c].ok /\ response[c].val.direct_matches = <<>>)

\* C4 witness: a call has returned whose scouts all finished, searched the
\* Storage and found nothing.
C4_Witness ==
    \E c \in Calls :
        /\ pc[c] = "done"
        /\ TasksOf(c) # {}
        /\ \A id \in TasksOf(c) : tasks[id].at = "finished" /\ tasks[id].findings = <<>>
        /\ \E id \in TasksOf(c) : tasks[id].dead_end_count > 0 /\ tasks[id].store_errors = 0
        /\ response[c].ok
        /\ response[c].val.direct_matches = <<>>

\* C5: a scout whose Storage call failed on every one of its patterns ends
\* with status Failed, without findings and with a dead-end counter equal to
\* its number of patterns, and its query returns a successful response.
C5_AllErrorsScoutEndsFailed ==
    \A id \in DOMAIN tasks :
        LET n == Len(active_scouts[id].search_patterns)
        IN (/\ tasks[id].scout_type = "KeywordHunter"
            /\ tasks[id].at = "finished"
            /\ n > 0
            /\ tasks[id].store_errors = n) =>
               /\ active_scouts[id].status = "Failed"
               /\ tasks[id].findings = <<>>
               /\ tasks[id].dead_end_count = n
               /\ pc[id[2]] = "done" => response[id[2]].ok

\* C6: once all scouts of a query have finished, the dead_ends of its
\* AnalysisResult, and dead_ends_encountered of the response, equal the sum of
\* the scouts' dead-end counters.
C6_DeadEndsAreScoutSum ==
    \A c \in Calls :
        (/\ pc[c] = "done"
         /\ ~cache_seen[c].some
         /\ response[c].ok
         /\ \A id \in TasksOf(c) : tasks[id].at = "finished") =>
            /\ analysis[c].val.dead_ends = SumDeadEnds(c, Cardinality(TasksOf(c)))
            /\ response[c].val.dead_ends_encountered = analysis[c].val.dead_ends

\* C7: a Focused and Urgent query is planned with exactly KeywordHunter,
\* EntityExtractor and RelationshipMapper, three scouts, one target cluster and
\* no dead-end allowance, whatever its text and the document count.
C7_FocusedUrgentPlan ==
    \A c \in Calls :
        (Planned(c) /\ iquery[c].scope = "Focused" /\ iquery[c].priority = "Urgent") =>
            /\ Len(strategy[c].scout_types) = 3
            /\ {strategy[c].scout_types[i] : i \in 1..3} =
                   {"KeywordHunter", "EntityExtractor", "RelationshipMapper"}
            /\ strategy[c].scout_count = 3
            /\ strategy[c].target_clusters = 1
            /\ strategy[c].estimated_dead_ends = 0

\* C7 witness: a Focused and Urgent query has been planned over a large corpus.
C7_Witness ==
    \E c \in Calls :
        /\ Planned(c)
        /\ iquery[c].scope = "Focused"
        /\ iquery[c].priority = "Urgent"
        /\ total_docs[c] >= 500

\* C8: an Exhaustive and Background query is planned with all 8 scout kinds,
\* each once, a dead-end allowance of 2 and max(1, total_docs / 100) target
\* clusters (1 for an empty corpus).
C8_ExhaustiveBackgroundPlan ==
    \A c \in Calls :
        (Planned(c) /\ iquery[c].scope = "Exhaustive" /\ iquery[c].priority = "Background") =>
            /\ Len(strategy[c].scout_types) = 8
            /\ strategy[c].scout_count = 8
            /\ {strategy[c].scout_types[i] : i \in 1..8} = ScoutType
            /\ strategy[c].estimated_dead_ends = 2
            /\ strategy[c].target_clusters =
                   (IF total_docs[c] < 100 THEN 1 ELSE total_docs[c] \div 100)
            /\ total_docs[c] = 0 => strategy[c].target_clusters = 1

\* C8 witness: an Exhaustive and Background query has been planned over a
\* corpus of several hundred documents.
C8_Witness ==
    \E c \in Calls :
        /\ Planned(c)
        /\ iquery[c].scope = "Exhaustive"
        /\ iquery[c].priority = "Background"
        /\ total_docs[c] >= 300
        /\ strategy[c].target_clusters >= 3

\* C9: on the adaptive path the plan's scout_types has exactly 5 entries, as
\* many as its scout_count.
C9_AdaptivePlanHasFiveKinds ==
    \A c \in Calls :
        (Planned(c) /\ Adaptive(iquery[c])) =>
            /\ Len(strategy[c].scout_types) = 5
            /\ Len(strategy[c].scout_types) = strategy[c].scout_count

\* C10: on the adaptive path the target clusters are total_docs / 50 clamped to
\* 1..10 and the dead-end allowance is 1.
C10_AdaptiveClusters ==
    \A c \in Calls :
        (Planned(c) /\ Adaptive(iquery[c])) =>
            /\ strategy[c].target_clusters =
                   (IF total_docs[c] \div 50 < 1 THEN 1
                    ELSE IF total_docs[c] \div 50 > 10 THEN 10
                    ELSE total_docs[c] \div 50)
            /\ strategy[c].estimated_dead_ends = 1

\* C10 witness: an adaptive plan was made over a corpus whose quotient by 50
\* exceeds the cap.
C10_Witness ==
    \E c \in Calls :
        /\ Planned(c)
        /\ Adaptive(iquery[c])
        /\ total_docs[c] \div 50 > 10
        /\ strategy[c].target_clusters = 10

\* C11: whatever the two metadata calls of the planner returned, the planner
\* returns a plan: the plan of a corpus of zero documents when the document
\* count failed, the plan of the count it read otherwise; the query is
\* answered and no error reaches the caller.
C11_PlanningSurvivesStoreFailure ==
    \A c \in Calls :
        metadata[c] # None =>
            /\ strategy[c] =
                   select_strategy(iquery[c],
                       IF metadata[c].count.ok THEN metadata[c].count.val ELSE 0)
            /\ ~metadata[c].count.ok => total_docs[c] = 0
            /\ Returned(c) => analysis[c].ok
            /\ pc[c] = "done" => response[c].ok

\* C11 witness: over a non-empty Storage both metadata calls of a call failed
\* and the call returned a response planned for zero documents.
C11_Witness ==
    \E c \in Calls :
        /\ pc[c] = "done"
        /\ metadata[c] # None
        /\ ~metadata[c].count.ok
        /\ ~metadata[c].types.ok
        /\ doc_count > 0
        /\ total_docs[c] = 0
        /\ response[c].ok

\* the hint vocabularies, by lower-cased name
ScopeNamed ==
    [h \in {"narrow", "focused", "broad", "exhaustive"} |->
        CASE h = "narrow" -> "Narrow" [] h = "focused" -> "Focused"
          [] h = "broad" -> "Broad" [] h = "exhaustive" -> "Exhaustive"]
PriorityNamed ==
    [h \in {"urgent", "high", "normal", "background"} |->
        CASE h = "urgent" -> "Urgent" [] h = "high" -> "High"
          [] h = "normal" -> "Normal" [] h = "background" -> "Background"]
IntentNamed ==
    [h \in {"fact", "facts", "relationship", "connections", "timeline", "chronology",
            "risk", "risks", "entities", "people", "companies", "classify",
            "categorize", "anomaly", "unusual", "compliance", "regulatory"} |->
        CASE h \in {"fact", "facts"} -> "FactFinding"
          [] h \in {"relationship", "connections"} -> "RelationshipMapping"
          [] h \in {"timeline", "chronology"} -> "TimelineAnalysis"
          [] h \in {"risk", "risks"} -> "RiskAssessment"
          [] h \in {"entities", "people", "companies"} -> "EntityExtraction"
          [] h \in {"classify", "categorize"} -> "DocumentClassification"
          [] h \in {"anomaly", "unusual"} -> "AnomalyDetection"
          [] OTHER -> "ComplianceAudit"]
\* the hint is absent, or names nothing of the vocabulary in any letter case
MatchesNothing(hint, named) == ~hint.some \/ to_lowercase(hint.val) \notin DOMAIN named

\* C12: every request is classified: parse_search_request returns a query of
\* the request's text with an intent, a scope and a priority, never an error;
\* the scope is Focused and the priority Normal when the hint is absent or
\* names nothing.
C12_ClassificationIsTotal ==
    \A c \in Calls :
        pc[c] # "idle" =>
            /\ response[c] # Err("InvalidQuery")
            /\ iquery[c] # None
            /\ iquery[c].original_query = request[c].query
            /\ iquery[c].intent \in QueryIntent
            /\ iquery[c].scope \in QueryScope
            /\ iquery[c].priority \in QueryPriority
            /\ MatchesNothing(request[c].scope, ScopeNamed) => iquery[c].scope = "Focused"
            /\ MatchesNothing(request[c].priority, PriorityNamed) =>
                   iquery[c].priority = "Normal"

\* C12 witness: a request whose three hints all name nothing was classified
\* FactFinding, Focused, Normal.
C12_Witness ==
    \E c \in Calls :
        /\ pc[c] # "idle"
        /\ request[c].intent_hint = Some("bogus")
        /\ request[c].scope = Some("everything")
        /\ request[c].priority = Some("asap")
        /\ iquery[c] # None
        /\ iquery[c].intent = "FactFinding"
        /\ iquery[c].scope = "Focused"
        /\ iquery[c].priority = "Normal"

\* C13: a hint that names an intent, a scope or a priority in any letter case
\* selects it: the intent whatever the keywords of the query text, and the
\* scope and the priority likewise.
C13_HintsMatchInAnyCase ==
    \A c \in Calls :
        (pc[c] # "idle" /\ iquery[c] # None) =>
            /\ ~MatchesNothing(request[c].intent_hint, IntentNamed) =>
                   iquery[c].intent = IntentNamed[to_lowercase(request[c].intent_hint.val)]
            /\ ~MatchesNothing(request[c].scope, ScopeNamed) =>
                   iquery[c].scope = ScopeNamed[to_lowercase(request[c].scope.val)]
            /\ ~MatchesNothing(request[c].priority, PriorityNamed) =>
                   iquery[c].priority = PriorityNamed[to_lowercase(request[c].priority.val)]

\* C14: the result cache is keyed on the exact query string: every entry is
\* filed under the string of the query that produced it, a call only ever
\* gets a result of its own exact string, and calls whose strings differ, be
\* it only in letter case or whitespace, have an entry each, made by
\* different runs of the pipeline.
C14_CacheKeyIsExactString ==
    /\ \A k \in DOMAIN query_cache : query_cache[k].original_query = k
    /\ \A c \in Calls :
          (Returned(c) /\ analysis[c].ok) =>
              analysis[c].val.original_query = request[c].query
    /\ \A c, d \in Calls :
          (pc[c] = "done" /\ pc[d] = "done" /\ request[c].query # request[d].query) =>
              /\ request[c].query \in DOMAIN query_cache
              /\ request[d].query \in DOMAIN query_cache
              /\ query_cache[request[c].query] # query_cache[request[d].query]

\* C14 witness: two calls whose strings differ only in letter case have both
\* returned and the cache holds one entry for each.
C14_Witness ==
    \E c, d \in Calls :
        /\ pc[c] = "done" /\ pc[d] = "done"
        /\ request[c].query # request[d].query
        /\ to_lowercase(request[c].query) = to_lowercase(request[d].query)
        /\ ~cache_seen[c].some /\ ~cache_seen[d].some
        /\ Cardinality(DOMAIN query_cache) >= 2
        /\ response[c].ok /\ response[d].ok

Range(seq) == {seq[i] : i \in DOMAIN seq}
NormalizedName(name) == to_lowercase(name)
Aggregated == aggregated # None /\ aggregated.ok
\* the findings handed to the aggregation steps that name the entity
Contributing(name) ==
    {f \in Range(Flatten(worker_findings)) :
        \E n \in Range(f.related_entities) : NormalizedName(n) = NormalizedName(name)}
\* the entity is named by findings of two different scouts
NamedByTwoWorkers(name) ==
    \E v, w \in 1..MaxWorkers :
        /\ v # w
        /\ \E f \in Range(worker_findings[v]) : f \in Contributing(name)
        /\ \E f \in Range(worker_findings[w]) : f \in Contributing(name)
\* excerpts of the DateReference findings whose date does not parse
UnparsedDates ==
    {f.excerpt : f \in {g \in Range(Flatten(worker_findings)) :
                            g.finding_type = "DateReference" /\ g.excerpt \notin DOMAIN DateOf}}
BroadenScope(text) ==
    contains(to_lowercase(text), "broaden") \/ contains(to_lowercase(text), "scope")
\* what the claim on arrival order compares of an AnalysisResult
Derived(result) ==
    IF result.ok
    THEN [entities |-> result.val.entities,
          relationships |-> result.val.relationships,
          timeline |-> result.val.timeline,
          document_clusters |-> result.val.document_clusters,
          confidence_score |-> result.val.confidence_score,
          dead_ends |-> result.val.dead_ends,
          recommendations |-> result.val.recommendations]
    ELSE result

C16_NoDanglingReferences ==
    Aggregated =>
        LET r == aggregated.val
            names == {r.entities[i].name : i \in DOMAIN r.entities}
            docs == {r.findings[i].document_id : i \in DOMAIN r.findings}
        IN /\ \A i \in DOMAIN r.relationships :
                 /\ r.relationships[i].from_entity \in names
                 /\ r.relationships[i].to_entity \in names
                 /\ Range(r.relationships[i].supporting_documents) \subseteq docs
           /\ \A i \in DOMAIN r.timeline :
                 /\ Range(r.timeline[i].involved_entities) \subseteq names
                 /\ Range(r.timeline[i].source_documents) \subseteq docs
           /\ \A i \in DOMAIN r.document_clusters :
                 Range(r.document_clusters[i].document_ids) \subseteq docs

\* C16 witness: an AnalysisResult was built from findings of both scouts, one
\* of which names two entities.
C16_Witness ==
    /\ Aggregated
    /\ \A w \in 1..MaxWorkers : worker_findings[w] # <<>>
    /\ \E f \in Range(Flatten(worker_findings)) : Len(f.related_entities) >= 2

\* C17: the timeline of the AnalysisResult is in ascending timestamp order
\* and has no event of a DateReference finding whose date does not parse; the
\* timeline of the response has the same events in the same order.
C17_TimelineSortedAndParsed ==
    Aggregated =>
        LET tl == aggregated.val.timeline
        IN /\ \A i, j \in DOMAIN tl : i < j => tl[i].timestamp <= tl[j].timestamp
           /\ \A i \in DOMAIN tl : tl[i].description \notin UnparsedDates
           /\ (response[1] # None /\ response[1].ok) =>
                  /\ Len(response[1].val.timeline) = Len(tl)
                  /\ \A i \in DOMAIN tl :
                        /\ response[1].val.timeline[i].timestamp = tl[i].timestamp
                        /\ response[1].val.timeline[i].description = tl[i].description

\* C17 witness: a response was built from findings in which a later date
\* arrived before an earlier one and one date does not parse.
C17_Witness ==
    /\ Aggregated
    /\ response[1] # None
    /\ response[1].ok
    /\ UnparsedDates # {}
    /\ worker_findings[1] # <<>>
    /\ worker_findings[2] # <<>>
    /\ worker_findings[1][1].excerpt = "2024-01-15"
    /\ worker_findings[2][1].excerpt = "2023-06-01"

C19_AggregationIgnoresArrivalOrder ==
    aggregated # None =>
        \A p \in Permutations(1..MaxWorkers) :
            LET query == parse_search_request(AggregatorRequest).val
            IN Derived(aggregate_findings(QueryId(1), query,
                                          select_strategy(query, doc_count),
                                          [w \in 1..MaxWorkers |-> worker_findings[p[w]]]))
                   = Derived(aggregated)

\* C19 witness: an AnalysisResult was built from two scouts that reported
\* different, non-empty findings.
C19_Witness ==
    /\ Aggregated
    /\ worker_findings[1] # <<>>
    /\ worker_findings[2] # <<>>
    /\ worker_findings[1][1].confidence # worker_findings[2][1].confidence

\* C20: the AnalysisResult of a query that ran the pipeline exists only when
\* every scout task spawned for the query has finished or the query's
\* deadline has passed.
C20_ResultAfterJoinOrDeadline ==
    \A c \in Calls :
        (Returned(c) /\ ~cache_seen[c].some /\ analysis[c].ok) =>
            \/ \A id \in TasksOf(c) : tasks[id].at = "finished"
            \/ deadline_passed[c]

\* C21: once a call has returned, none of the scout tasks spawned for it is
\* still running, waiting for the Storage or holding it.
C21_NoScoutOutlivesItsCall ==
    \A c \in Calls :
        pc[c] = "done" =>
            \A id \in TasksOf(c) : tasks[id].at = "finished" /\ storage_lock # id

\* the patterns of a scout that its loop has gone through
Searched(id) == Len(active_scouts[id].search_patterns) - Len(tasks[id].keywords)
\* the patterns gone through that left no finding
DeadEndPatterns(id) ==
    {k \in 1..Searched(id) :
        \A i \in DOMAIN tasks[id].findings :
            tasks[id].findings[i].related_entities # <<active_scouts[id].search_patterns[k]>>}

\* C22: in a KeywordHunter the dead-end counter is the number of patterns
\* searched so far that gave no hit or an error, every finding is a hit of a
\* pattern searched so far, and the scout finishes only when every pattern
\* has been searched.
C22_DeadEndsCountedAndLoopGoesOn ==
    \A id \in DOMAIN tasks :
        tasks[id].scout_type = "KeywordHunter" =>
            /\ tasks[id].dead_end_count = Cardinality(DeadEndPatterns(id))
            /\ tasks[id].store_errors <= tasks[id].dead_end_count
            /\ \A i \in DOMAIN tasks[id].findings :
                  \E k \in 1..Searched(id) :
                      tasks[id].findings[i].related_entities =
                          <<active_scouts[id].search_patterns[k]>>
            /\ tasks[id].at = "finished" =>
                  Searched(id) = Len(active_scouts[id].search_patterns)

\* C22 witness: a KeywordHunter finished whose first search failed and whose
\* second search gave a hit.
C22_Witness ==
    \E id \in DOMAIN tasks :
        /\ tasks[id].scout_type = "KeywordHunter"
        /\ tasks[id].at = "finished"
        /\ Len(active_scouts[id].search_patterns) = 2
        /\ tasks[id].store_errors = 1
        /\ tasks[id].dead_end_count = 1
        /\ Len(tasks[id].findings) = 1
        /\ tasks[id].findings[1].related_entities = <<active_scouts[id].search_patterns[2]>>

\* C23: no scout registered for a query still has status Deployed once the
\* query's result has been returned, and a scout whose task has finished has
\* status Completed or Failed.
C23_ScoutsLeaveDeployed ==
    \A id \in DOMAIN active_scouts :
        /\ pc[id[2]] = "done" => active_scouts[id].status # "Deployed"
        /\ tasks[id].at = "finished" => active_scouts[id].status \in {"Completed", "Failed"}

\* the priority order of the kinds of the adaptive path
KindOrder ==
    <<"KeywordHunter", "EntityExtractor", "TimelineBuilder", "RelationshipMapper",
      "ComplianceChecker", "AnomalySpotter">>
KindRank(kind) == CHOOSE i \in DOMAIN KindOrder : KindOrder[i] = kind
\* the keyword test of the classifier for the intent a kind serves, on the
\* lower-cased query text
IntentTest(kind, text) ==
    CASE kind = "EntityExtractor" -> contains(text, "who") \/ contains(text, "person")
      [] kind = "TimelineBuilder" -> contains(text, "when") \/ contains(text, "timeline")
      [] kind = "RelationshipMapper" ->
             contains(text, "relationship") \/ contains(text, "connected")
      [] kind = "ComplianceChecker" -> contains(text, "compliance") \/ contains(text, "legal")
      [] kind = "AnomalySpotter" -> contains(text, "unusual") \/ contains(text, "anomaly")

\* C24: on the adaptive path scout_types begins with KeywordHunter and lists
\* its kinds in the order EntityExtractor, TimelineBuilder,
\* RelationshipMapper, ComplianceChecker, AnomalySpotter, none twice, wherever
\* the trigger words stand in the query text.
C24_AdaptiveKindsInPriorityOrder ==
    \A c \in Calls :
        (Planned(c) /\ Adaptive(iquery[c])) =>
            LET kinds == strategy[c].scout_types
            IN /\ kinds # <<>>
               /\ kinds[1] = "KeywordHunter"
               /\ \A i \in DOMAIN kinds : kinds[i] \in Range(KindOrder)
               /\ \A i, j \in DOMAIN kinds :
                     i < j => KindRank(kinds[i]) < KindRank(kinds[j])

\* C24 witness: a query that names the five triggers in the reverse of the
\* priority order was planned with all six kinds.
C24_Witness ==
    \E c \in Calls :
        /\ Planned(c)
        /\ Adaptive(iquery[c])
        /\ iquery[c].original_query = "unusual legal relationship when who"
        /\ strategy[c].scout_types = KindOrder

\* C25: on the adaptive path a kind is in scout_types exactly when the
\* classifier's keyword test for its intent matches the lower-cased query
\* text.
C25_KindTriggersAreIntentTriggers ==
    \A c \in Calls :
        (Planned(c) /\ Adaptive(iquery[c])) =>
            \A kind \in Range(KindOrder) \ {"KeywordHunter"} :
                (kind \in Range(strategy[c].scout_types)) <=>
                    IntentTest(kind, to_lowercase(iquery[c].original_query))

\* C26: a scout that has a pattern to search is never kept waiting by the
\* Storage search of another scout.
C26_ScoutSearchesDoNotWait ==
    \A id \in DOMAIN tasks :
        (tasks[id].at = "ready" /\ tasks[id].keywords # <<>>) =>
            ~(storage_lock \in DOMAIN tasks /\ storage_lock # id)

\* C27: once execute_intelligent_query has returned for a query,
\* active_scouts holds no scout created for that query.
C27_RegistryForgetsReturnedQueries ==
    \A c \in Calls :
        Returned(c) => \A id \in DOMAIN active_scouts : id[2] # c

\* the search calls that have returned a response
DoneOk == {c \in Calls : pc[c] = "done" /\ response[c].ok}

\* C28: the query history has exactly one entry for every search call that
\* has returned a response, cache hits included, carrying that response's
\* query id and the call's query text, and no other entry.
C28_HistoryIsOneEntryPerResponse ==
    /\ Len(query_history) = Cardinality(DoneOk)
    /\ \A c \in DoneOk :
          /\ Cardinality({i \in DOMAIN query_history :
                              query_history[i].query_id = response[c].val.query_id}) = 1
          /\ \A i \in DOMAIN query_history :
                query_history[i].query_id = response[c].val.query_id =>
                    query_history[i].query = request[c].query
    /\ \A i \in DOMAIN query_history :
          \E c \in DoneOk : query_history[i].query_id = response[c].val.query_id

\* C28 witness: two calls have returned, one of them answered from the cache,
\* and the history has both.
C28_Witness ==
    /\ Len(query_history) >= 2
    /\ \E c, d \in DoneOk : c # d /\ cache_seen[c].some /\ ~cache_seen[d].some

C30_EveryCallReturns ==
    \A c \in Calls : Started(<<"search", c>>) ~> Finished(<<"search", c>>)

\* C30 witness: a search call waits for the Storage while the scout of
\* another call holds it, and that other call holds another Mutex.
C30_Witness ==
    \E c, d \in Calls :
        /\ c # d
        /\ Started(<<"search", c>>)
        /\ ~Finished(<<"search", c>>)
        /\ Head(lock_ops[<<"search", c>>]) = Acq("storage")
        /\ lock_holder["storage"] = <<"scout", d>>
        /\ \E l \in Locks \ {"storage"} : lock_holder[l] = <<"search", d>>

====
